---- MODULE Spec2Model ----
(***************************************************************************)
(* Model of scripts/sniff_modbus.py: the passive Modbus RTU sniffer.       *)
(*                                                                         *)
(* The state is main()'s locals (frame_buffer, last_byte_time, data,       *)
(* current_time), the serial transport (its receive queue, its control     *)
(* lines, whether it is open), the log file, the sequence of frames handed *)
(* to decode_frame, the millisecond clock and main()'s position.  One      *)
(* action models one statement group of main(); the operator interrupt     *)
(* (KeyboardInterrupt) and I/O errors can arrive between any two of them.  *)
(***************************************************************************)
EXTENDS Integers, Sequences, FiniteSets, TLC

\* ------------------------------------------------------------------ bounds

\* Total number of bytes the bus delivers in one run.
MaxBytes == 3

\* Last millisecond of the clock in one run.
MaxTime == 15

\* Values of the bytes seen on the bus.
ByteSamples == {1, 4}

\* ------------------------------------------------------ program constants

\* FRAME_GAP_MS = 6
FRAME_GAP_MS == 6

\* ------------------------------------------------------------------- state

VARIABLES
    pc,             \* position of main()
    serState,       \* "unopened" | "open" | "closed": the serial.Serial object
    rts,            \* RTS line asserted
    dtr,            \* DTR line asserted
    txCount,        \* bytes written to the bus by the program
    logState,       \* "none" | "open" | "closed": the log file
    rx,             \* bytes waiting in the transport (ser.in_waiting of them)
    data,           \* local `data`: the chunk just read
    current_time,   \* local `current_time`
    frame_buffer,   \* local `frame_buffer`
    last_byte_time, \* local `last_byte_time`
    emitted,        \* frames passed to decode_frame, in call order
    now,            \* time.time() * 1000
    exc,            \* "none" | "interrupt" | "error": the exception in flight
    readBytes,      \* history: every byte returned by ser.read, in order
    prevRead,       \* history: clock value of the previous ser.read (0: none)
    tight,          \* history: every gap between reads that is not a cut is below the threshold
    cuts,           \* history: Len(readBytes) before each read whose gap exceeded the threshold
    intAt,          \* history: position at which the interrupt was delivered
    intBuf,         \* history: frame_buffer when the interrupt was delivered
    intCount,       \* history: Len(emitted) when the interrupt was delivered
    input,          \* function under test: the argument `frame` / `data`
    body,           \* history: the bytes of `input` before its trailer
    seal,           \* history: how the trailer of `input` was made
    dpc,            \* function under test: "off" | "input" | "crc" | "verified" | "decoded"
    show_bad_crc,   \* decode_frame's argument show_bad_crc
    crc_value,      \* value returned by calc_crc16(input)
    crc_result,     \* outcome of verify_crc(input)
    verify_calls,   \* verify_crc calls made by the function under test
    console,        \* lines decode_frame printed
    logfile         \* lines decode_frame wrote to the log file

vars == <<pc, serState, rts, dtr, txCount, logState, rx, data, current_time,
          frame_buffer, last_byte_time, emitted, now, exc, readBytes, prevRead,
          tight, cuts, intAt, intBuf, intCount, input, body, seal, dpc,
          show_bad_crc, crc_value, crc_result, verify_calls, console, logfile>>

serVars == <<serState, rts, dtr, txCount>>
loopVars == <<data, current_time, frame_buffer, last_byte_time, emitted>>
readHist == <<readBytes, prevRead, tight, cuts>>
intHist == <<intAt, intBuf, intCount>>
mainVars == <<pc, serVars, logState, rx, loopVars, now, exc, readHist, intHist>>
decVars == <<input, body, seal, dpc, show_bad_crc, crc_value, crc_result,
             verify_calls, console, logfile>>

\* Positions inside the `try:` of the capture loop (lines 296-329).
LoopPcs == {"loop", "read", "gapcheck", "emit_d", "reset_d", "extend", "stamp",
            "idle", "emit_i", "reset_i", "clear_i", "sleep"}

\* Positions at which the program has terminated.
EndPcs == {"exited", "crashed", "done"}

\* ----------------------------------------------------------------- helpers

RECURSIVE Flatten(_)
\* The concatenation of a sequence of byte sequences.
Flatten(frames) ==
    IF frames = <<>> THEN <<>> ELSE Head(frames) \o Flatten(Tail(frames))

IsPrefix(s, t) == Len(s) <= Len(t) /\ SubSeq(t, 1, Len(s)) = s

\* Mutant of GapExceeded: the threshold taken as half of FRAME_GAP_MS.
GapExceeded_HalfThreshold(cur, last) == cur - last > FRAME_GAP_MS \div 2

\* `gap > FRAME_GAP_MS` with gap = current_time - last_byte_time.
GapExceeded(cur, last) == cur - last > FRAME_GAP_MS

\* Mutant of NewFrameStarts: the bytes-available poll never sees a boundary.
NewFrameStarts_Never(buf, last, cur) == FALSE

\* `if frame_buffer and last_byte_time > 0: ... if gap > FRAME_GAP_MS:`
NewFrameStarts(buf, last, cur) ==
    buf # <<>> /\ last > 0 /\ GapExceeded(cur, last)

\* Mutant of IdleFlushDue: the idle poll never finds a flush due.
IdleFlushDue_Never(buf, last, cur) == FALSE

\* Mutant of IdleFlushDue: the idle poll does not test `if frame_buffer:`.
IdleFlushDue_AnyBuffer(buf, last, cur) == GapExceeded(cur, last)

\* `if frame_buffer: ... if gap > FRAME_GAP_MS:`
IdleFlushDue(buf, last, cur) ==
    buf # <<>> /\ GapExceeded(cur, last)

\* Mutant of Emit: the newest frame is put in front of the older ones.
Emit_Prepend(sink, frame) == <<frame>> \o sink

\* decode_frame(bytes(frame_buffer), ...): the frame reaches the sink.
Emit(sink, frame) == Append(sink, frame)

\* Mutant of Extend: the chunk replaces the buffer instead of extending it.
Extend_Overwrite(buf, chunk) == chunk

\* frame_buffer.extend(data)
Extend(buf, chunk) == buf \o chunk

\* Mutant of ShutdownFlush: the handler stops without flushing.
ShutdownFlush_Skip(sink, buf) == sink

\* `if frame_buffer: decode_frame(bytes(frame_buffer), ...)` of the handler.
ShutdownFlush(sink, buf) == IF buf # <<>> THEN Emit(sink, buf) ELSE sink

\* ---------------------------------------------------------------- checksum

\* Bit i of the non-negative integer a.
BitAt(a, i) == (a \div 2 ^ i) % 2

\* a ^ b for every pair of four-bit values.
XorNibbles ==
    [a \in 0 .. 15 |-> [b \in 0 .. 15 |->
        ((IF BitAt(a, 0) # BitAt(b, 0) THEN 1 ELSE 0)
            + (IF BitAt(a, 1) # BitAt(b, 1) THEN 2 ELSE 0))
        + ((IF BitAt(a, 2) # BitAt(b, 2) THEN 4 ELSE 0)
            + (IF BitAt(a, 3) # BitAt(b, 3) THEN 8 ELSE 0))]]

\* a | b for every pair of four-bit values.
OrNibbles ==
    [a \in 0 .. 15 |-> [b \in 0 .. 15 |->
        ((IF BitAt(a, 0) + BitAt(b, 0) > 0 THEN 1 ELSE 0)
            + (IF BitAt(a, 1) + BitAt(b, 1) > 0 THEN 2 ELSE 0))
        + ((IF BitAt(a, 2) + BitAt(b, 2) > 0 THEN 4 ELSE 0)
            + (IF BitAt(a, 3) + BitAt(b, 3) > 0 THEN 8 ELSE 0))]]

RECURSIVE BitXor(_, _)
\* a ^ b on non-negative integers, four bits at a time.
BitXor(a, b) ==
    IF a = 0 THEN b
    ELSE IF b = 0 THEN a
    ELSE 16 * BitXor(a \div 16, b \div 16) + XorNibbles[a % 16][b % 16]

RECURSIVE BitOr(_, _)
\* a | b on non-negative integers, four bits at a time.
BitOr(a, b) ==
    IF a = 0 THEN b
    ELSE IF b = 0 THEN a
    ELSE 16 * BitOr(a \div 16, b \div 16) + OrNibbles[a % 16][b % 16]

\* crc = 0xFFFF
CRC_INIT == 65535

\* 0xA001
CRC_POLY == 40961

RECURSIVE CrcBits_XorFirst(_, _)
\* Mutant of CrcBits: the polynomial is XORed in before the shift.
CrcBits_XorFirst(crc, n) ==
    IF n = 0 THEN crc
    ELSE IF crc % 2 = 1 THEN CrcBits_XorFirst(BitXor(crc, CRC_POLY) \div 2, n - 1)
    ELSE CrcBits_XorFirst(crc \div 2, n - 1)

RECURSIVE CrcBits_AddPoly(_, _)
\* Mutant of CrcBits: the polynomial is added, not XORed.
CrcBits_AddPoly(crc, n) ==
    IF n = 0 THEN crc
    ELSE IF crc % 2 = 1 THEN CrcBits_AddPoly((crc \div 2) + CRC_POLY, n - 1)
    ELSE CrcBits_AddPoly(crc \div 2, n - 1)

RECURSIVE CrcBits(_, _)
\* `for _ in range(8): if crc & 1: crc = (crc >> 1) ^ 0xA001 else: crc >>= 1`
\* with n iterations left.
CrcBits(crc, n) ==
    IF n = 0 THEN crc
    ELSE IF crc % 2 = 1 THEN CrcBits(BitXor(crc \div 2, CRC_POLY), n - 1)
    ELSE CrcBits(crc \div 2, n - 1)

RECURSIVE CrcBytes(_, _)
\* `for byte in data: crc ^= byte; for _ in range(8): ...`
CrcBytes(crc, bytes) ==
    IF bytes = <<>> THEN crc
    ELSE CrcBytes(CrcBits(BitXor(crc, Head(bytes)), 8), Tail(bytes))

\* Mutant of calc_crc16: the accumulator is inverted before it is returned.
calc_crc16_Inverted(bytes) == 65535 - CrcBytes(CRC_INIT, bytes)

\* calc_crc16(data)
calc_crc16(bytes) == CrcBytes(CRC_INIT, bytes)

\* frame[:-2]
AllButLastTwo(frm) == SubSeq(frm, 1, Len(frm) - 2)

\* Mutant of VerifyCrcRun: the length guard lets 2- and 3-byte frames through.
VerifyCrcRun_ShortGuard(frm) ==
    IF Len(frm) < 2 THEN [ok |-> FALSE, calc_calls |-> 0]
    ELSE [ok |-> BitOr(frm[Len(frm) - 1], frm[Len(frm)] * 256)
                    = calc_crc16(AllButLastTwo(frm)),
          calc_calls |-> 1]

\* Mutant of VerifyCrcRun: the trailer is read big-endian.
VerifyCrcRun_BigEndian(frm) ==
    IF Len(frm) < 4 THEN [ok |-> FALSE, calc_calls |-> 0]
    ELSE [ok |-> BitOr(frm[Len(frm)], frm[Len(frm) - 1] * 256)
                    = calc_crc16(AllButLastTwo(frm)),
          calc_calls |-> 1]

\* One run of verify_crc(frame): the value returned and the number of
\* calc_crc16 calls made.
VerifyCrcRun(frm) ==
    IF Len(frm) < 4 THEN [ok |-> FALSE, calc_calls |-> 0]
    ELSE [ok |-> BitOr(frm[Len(frm) - 1], frm[Len(frm)] * 256)
                    = calc_crc16(AllButLastTwo(frm)),
          calc_calls |-> 1]

\* verify_crc(frame)
verify_crc(frm) == VerifyCrcRun(frm).ok

\* ------------------------------------------------------------------ decoder

\* FUNC_CODES
FUNC_CODES ==
    (1 :> "Read Coils") @@ (2 :> "Read Discrete Inputs")
    @@ (3 :> "Read Holding Registers") @@ (4 :> "Read Input Registers")
    @@ (5 :> "Write Single Coil") @@ (6 :> "Write Single Register")
    @@ (15 :> "Write Multiple Coils") @@ (16 :> "Write Multiple Registers")

\* EXCEPTION_CODES
EXCEPTION_CODES ==
    (1 :> "Illegal Function") @@ (2 :> "Illegal Data Address")
    @@ (3 :> "Illegal Data Value") @@ (4 :> "Slave Device Failure")
    @@ (5 :> "Acknowledge") @@ (6 :> "Slave Device Busy")
    @@ (8 :> "Memory Parity Error")

\* dict.get(key, default)
DictGet(dict, key, default) ==
    IF key \in DOMAIN dict THEN dict[key] ELSE default

\* The sixteen upper-case hexadecimal digits.
HexDigits ==
    <<"0", "1", "2", "3", "4", "5", "6", "7",
      "8", "9", "A", "B", "C", "D", "E", "F">>

\* bytes.hex().upper(): two digits for each byte, high nibble first.
HexUpper(bytes) ==
    [i \in 1 .. 2 * Len(bytes) |->
        IF i % 2 = 1 THEN HexDigits[(bytes[(i + 1) \div 2] \div 16) + 1]
        ELSE HexDigits[(bytes[i \div 2] % 16) + 1]]

\* frame[start:stop] for 0 <= start and 0 <= stop: the slice stops at the end
\* of the frame.
Slice(frm, start, stop) ==
    SubSeq(frm, start + 1, IF stop < Len(frm) THEN stop ELSE Len(frm))

\* (hi << 8) | lo
Word(hi, lo) == BitOr(hi * 256, lo)

\* if val >= 0x8000: val -= 0x10000
Signed16(val) == IF val >= 32768 THEN val - 65536 ELSE val

\* The register values parsed from data_bytes: one for each complete pair.
RegisterValues(data_bytes) ==
    [k \in 1 .. Len(data_bytes) \div 2 |->
        Signed16(Word(data_bytes[2 * k - 1], data_bytes[2 * k]))]

\* f"{first_val / 10.0:.1f}": sign, whole part and one decimal.
FormatTenths(first_val) ==
    LET mag == IF first_val < 0 THEN 0 - first_val ELSE first_val
    IN  [neg |-> first_val < 0, whole |-> mag \div 10, tenth |-> mag % 10]

\* Mutant of TempInfo: the range is tested before the two error values.
TempInfo_RangeFirst(values) ==
    IF values = <<>> THEN [note |-> "", color |-> ""]
    ELSE IF 0 - 400 <= values[1] /\ values[1] <= 1250
         THEN [note |-> "C", color |-> "GREEN", temp_c |-> FormatTenths(values[1])]
    ELSE IF values[1] = 0 THEN [note |-> "0x0000 SENSOR ERROR", color |-> "RED"]
    ELSE IF values[1] = 0 - 1 THEN [note |-> "0xFFFF MODBUS ERROR", color |-> "RED"]
    ELSE [note |-> "OUT OF RANGE", color |-> "YELLOW"]

\* temp_info: the annotation put after the values on the console.
TempInfo(values) ==
    IF values = <<>> THEN [note |-> "", color |-> ""]
    ELSE IF values[1] = 0 THEN [note |-> "0x0000 SENSOR ERROR", color |-> "RED"]
    ELSE IF values[1] = 0 - 1 THEN [note |-> "0xFFFF MODBUS ERROR", color |-> "RED"]
    ELSE IF 0 - 400 <= values[1] /\ values[1] <= 1250
         THEN [note |-> "C", color |-> "GREEN", temp_c |-> FormatTenths(values[1])]
    ELSE [note |-> "OUT OF RANGE", color |-> "YELLOW"]

\* Mutant of IsIncomplete: three bytes pass for a frame.
IsIncomplete_Below3(frm) == Len(frm) < 3

\* if len(frame) < 4
IsIncomplete(frm) == Len(frm) < 4

\* Mutant of SkipBadCrc: the filter is never applied.
SkipBadCrc_Never(crc_ok, show) == FALSE

\* Mutant of SkipBadCrc: a bad checksum is held back whatever the flag.
SkipBadCrc_IgnoresFlag(crc_ok, show) == ~crc_ok

\* if not crc_ok and not show_bad_crc
SkipBadCrc(crc_ok, show) == ~crc_ok /\ ~show

\* The "Incomplete frame" line of the console.
IncompleteConsole(frm, hex_str) ==
    [kind |-> "Incomplete frame", color |-> "YELLOW", len |-> Len(frm),
     hex |-> hex_str]

\* The "INCOMPLETE:" line of the log.
IncompleteLog(hex_str) == [kind |-> "INCOMPLETE", hex |-> hex_str]

\* Mutant of RawBadLog: the line is written without the dump.
RawBadLog_NoHex(hex_str) == [kind |-> "RAW", hex |-> <<>>, suffix |-> "CRC:BAD"]

\* The "RAW: ... CRC:BAD" line of the log.
RawBadLog(hex_str) == [kind |-> "RAW", hex |-> hex_str, suffix |-> "CRC:BAD"]

\* The "RAW:" line of the log.
RawLog(hex_str) == [kind |-> "RAW", hex |-> hex_str, suffix |-> ""]

\* The exception branch: its console line and its log line.
DecodeException(frm, addr, func) ==
    LET exc_code == IF Len(frm) > 2 THEN frm[3] ELSE 0
        exc_name == DictGet(EXCEPTION_CODES, exc_code, "Unknown")
    IN  [console |-> [kind |-> "EXCEPTION", color |-> "RED", addr |-> addr,
                      exc_name |-> exc_name, exc |-> exc_code],
         log |-> [kind |-> "EXCEPTION", addr |-> addr, func |-> func,
                  exc |-> exc_code, exc_name |-> exc_name]]

\* The request branch of functions 3 and 4 (eight-byte frames).
DecodeRequest(frm, addr, func, func_name, crc_str, crc_log) ==
    LET reg == Word(frm[3], frm[4])
        count == Word(frm[5], frm[6])
    IN  [console |-> [kind |-> "REQUEST", color |-> "CYAN", addr |-> addr,
                      func |-> func, func_name |-> func_name, reg |-> reg,
                      count |-> count, crc |-> crc_str],
         log |-> [kind |-> "REQUEST", addr |-> addr, func |-> func,
                  reg |-> reg, count |-> count, crc |-> crc_log]]

\* The response branch of function 4: signed register values.
DecodeInputResponse(frm, addr, func, crc_str, crc_log) ==
    LET bytecount == frm[3]
        data_bytes == Slice(frm, 3, 3 + bytecount)
        values == RegisterValues(data_bytes)
    IN  [console |-> [kind |-> "RESPONSE", color |-> "GREEN", addr |-> addr,
                      func |-> func, bytes |-> bytecount, values |-> values,
                      temp_info |-> TempInfo(values), crc |-> crc_str],
         log |-> [kind |-> "RESPONSE", addr |-> addr, func |-> func,
                  bytes |-> bytecount, values |-> values, crc |-> crc_log]]

\* The response branch of function 3: the data as a hex dump.
DecodeHoldingResponse(frm, addr, func, crc_str, crc_log) ==
    LET bytecount == frm[3]
        data_hex == HexUpper(Slice(frm, 3, 3 + bytecount))
    IN  [console |-> [kind |-> "RESPONSE", color |-> "GREEN", addr |-> addr,
                      func |-> func, bytes |-> bytecount, data |-> data_hex,
                      crc |-> crc_str],
         log |-> [kind |-> "RESPONSE", addr |-> addr, func |-> func,
                  bytes |-> bytecount, data |-> data_hex, crc |-> crc_log]]

\* The generic branch.
DecodeGeneric(frm, addr, func, func_name, hex_str, crc_str, crc_log) ==
    [console |-> [kind |-> "FRAME", color |-> "BLUE", addr |-> addr,
                  func |-> func, func_name |-> func_name, len |-> Len(frm),
                  crc |-> crc_str],
     log |-> [kind |-> "FRAME", addr |-> addr, func |-> func, len |-> Len(frm),
              hex |-> hex_str, crc |-> crc_log]]

\* The branch taken by a frame that got past the filter.
Classify(frm, addr, func, is_exception, func_name, hex_str, crc_str, crc_log) ==
    IF is_exception THEN DecodeException(frm, addr, func)
    ELSE IF func = 4
         THEN IF Len(frm) = 8
              THEN DecodeRequest(frm, addr, func, func_name, crc_str, crc_log)
              ELSE DecodeInputResponse(frm, addr, func, crc_str, crc_log)
    ELSE IF func = 3
         THEN IF Len(frm) = 8
              THEN DecodeRequest(frm, addr, func, func_name, crc_str, crc_log)
              ELSE DecodeHoldingResponse(frm, addr, func, crc_str, crc_log)
    ELSE DecodeGeneric(frm, addr, func, func_name, hex_str, crc_str, crc_log)

\* decode_frame(frame, timestamp, logfile, show_bad_crc): the lines printed,
\* the lines written to the log and the verify_crc calls made.  Every line
\* starts with the timestamp, which is left out.
decode_frame(frm, show) ==
    LET hex_str == HexUpper(frm)
    IN  IF IsIncomplete(frm)
        THEN [console |-> IF show THEN <<IncompleteConsole(frm, hex_str)>>
                          ELSE <<>>,
              log |-> <<IncompleteLog(hex_str)>>,
              verify_calls |-> 0]
        ELSE LET addr == frm[1]
                 is_exception == frm[2] >= 128
                 func == IF is_exception THEN frm[2] - 128 ELSE frm[2]
                 func_name == DictGet(FUNC_CODES, func, "Unknown")
                 crc_ok == verify_crc(frm)
                 crc_str == IF crc_ok THEN "CRC:OK" ELSE "CRC:BAD"
                 crc_log == IF crc_ok THEN "OK" ELSE "BAD"
             IN  IF SkipBadCrc(crc_ok, show)
                 THEN [console |-> <<>>,
                       log |-> <<RawBadLog(hex_str)>>,
                       verify_calls |-> 1]
                 ELSE LET out == Classify(frm, addr, func, is_exception,
                                          func_name, hex_str, crc_str, crc_log)
                      IN  [console |-> <<out.console>>,
                           log |-> <<RawLog(hex_str), out.log>>,
                           verify_calls |-> 1]

\* -------------------------------------------------------------------- Init

\* No function is under test: the harness variables rest.
DecOff ==
    /\ input = <<>>
    /\ body = <<>>
    /\ seal = "none"
    /\ dpc = "off"
    /\ show_bad_crc = TRUE
    /\ crc_value = 0
    /\ crc_result = [ok |-> FALSE, calc_calls |-> 0]
    /\ verify_calls = 0
    /\ console = <<>>
    /\ logfile = <<>>

Init ==
    /\ DecOff
    /\ pc = "start"
    /\ serState = "unopened"
    /\ rts = FALSE
    /\ dtr = FALSE
    /\ txCount = 0
    /\ logState = "none"
    /\ rx = <<>>
    /\ data = <<>>
    /\ current_time = 0
    /\ frame_buffer = <<>>
    /\ last_byte_time = 0
    /\ emitted = <<>>
    /\ now = 1
    /\ exc = "none"
    /\ readBytes = <<>>
    /\ prevRead = 0
    /\ tight = TRUE
    /\ cuts = {}
    /\ intAt = "none"
    /\ intBuf = <<>>
    /\ intCount = 0

\* ------------------------------------------------------------- environment

\* Positions whose next statement reads the clock (time.time()).
ClockReadPcs == {"read", "idle"}

\* The clock advances by one millisecond.  The program observes the clock
\* only at ClockReadPcs, so time that passes anywhere else in an iteration
\* is accounted for when the next such position is reached.
Tick ==
    /\ pc \in ClockReadPcs
    /\ now < MaxTime
    /\ now' = now + 1
    /\ UNCHANGED <<decVars, pc, serVars, logState, rx, loopVars, exc, readHist, intHist>>

\* A byte of bus traffic reaches the open transport's receive queue.
Arrive ==
    /\ serState = "open"
    /\ pc \notin EndPcs
    /\ Len(readBytes) + Len(rx) < MaxBytes
    /\ \E b \in ByteSamples : rx' = Append(rx, b)
    /\ UNCHANGED <<decVars, pc, serVars, logState, loopVars, now, exc, readHist, intHist>>

\* ------------------------------------------------------------------- setup

\* serial.Serial(port=device, ...) succeeds.  The constructor is given no
\* rts/dtr argument: the state of the control lines when it returns is the
\* library's and the driver's choice.
OpenSerial ==
    /\ pc = "start"
    /\ pc' = "opened"
    /\ serState' = "open"
    /\ rts' \in BOOLEAN
    /\ dtr' \in BOOLEAN
    /\ UNCHANGED <<decVars, txCount, logState, rx, loopVars, now, exc, readHist, intHist>>

\* Mutant of OpenSerialFail: the failure is reported after the log file was
\* created.
OpenSerialFail_LogCreated ==
    /\ pc = "start"
    /\ pc' = "exited"
    /\ exc' = "error"
    /\ logState' = "closed"
    /\ UNCHANGED <<decVars, serVars, rx, loopVars, now, readHist, intHist>>

\* serial.Serial(...) raises SerialException: report, sys.exit(1).
OpenSerialFail ==
    /\ pc = "start"
    /\ pc' = "exited"
    /\ exc' = "error"
    /\ UNCHANGED <<decVars, serVars, logState, rx, loopVars, now, readHist, intHist>>

\* ser.rts = False
SetRts ==
    /\ pc = "opened"
    /\ pc' = "rts_set"
    /\ rts' = FALSE
    /\ UNCHANGED <<decVars, serState, dtr, txCount, logState, rx, loopVars, now, exc,
                   readHist, intHist>>

\* ser.dtr = False
SetDtr ==
    /\ pc = "rts_set"
    /\ pc' = "configured"
    /\ dtr' = FALSE
    /\ UNCHANGED <<decVars, serState, rts, txCount, logState, rx, loopVars, now, exc,
                   readHist, intHist>>

\* termios / low-latency / USB latency set-up, then ser.reset_input_buffer()
\* and time.sleep(0.1).
SettleBus ==
    /\ pc = "configured"
    /\ pc' = "settled"
    /\ rx' = <<>>
    /\ UNCHANGED <<decVars, serVars, logState, loopVars, now, exc, readHist, intHist>>

\* An exception between the constructor's return and `with open(...)`:
\* SerialException from the control-line setters (caught at line 245:
\* sys.exit(1)), or any other exception or interrupt, which no handler
\* catches.  Neither path calls ser.close().
SetupError ==
    /\ pc \in {"opened", "rts_set", "configured"}
    /\ pc' = "crashed"
    /\ exc' = "error"
    /\ UNCHANGED <<decVars, serVars, logState, rx, loopVars, now, readHist, intHist>>

\* `with open(logfile_name, 'w') as logfile:` and the header lines.
OpenLog ==
    /\ pc = "settled"
    /\ pc' = "loop"
    /\ logState' = "open"
    /\ UNCHANGED <<decVars, serVars, rx, loopVars, now, exc, readHist, intHist>>

\* open(logfile_name, 'w') raises OSError: the `with` body, and with it the
\* try/finally that closes the transport, is never entered.
OpenLogFail ==
    /\ pc = "settled"
    /\ pc' = "crashed"
    /\ exc' = "error"
    /\ UNCHANGED <<decVars, serVars, logState, rx, loopVars, now, readHist, intHist>>

\* ------------------------------------------------- capture loop, data path

\* `if ser.in_waiting > 0:` taken.
PollBytes ==
    /\ pc = "loop"
    /\ Len(rx) > 0
    /\ pc' = "read"
    /\ UNCHANGED <<decVars, serVars, logState, rx, loopVars, now, exc, readHist, intHist>>

\* data = ser.read(ser.in_waiting); current_time = time.time() * 1000
ReadChunk ==
    /\ pc = "read"
    /\ pc' = "gapcheck"
    /\ data' = rx
    /\ rx' = <<>>
    /\ current_time' = now
    /\ readBytes' = readBytes \o rx
    /\ prevRead' = now
    /\ cuts' = IF prevRead > 0 /\ now - prevRead > FRAME_GAP_MS
               THEN cuts \cup {Len(readBytes)} ELSE cuts
    /\ tight' = (tight /\ (prevRead > 0 => \/ now - prevRead < FRAME_GAP_MS
                                           \/ now - prevRead > FRAME_GAP_MS))
    /\ UNCHANGED <<decVars, serVars, logState, frame_buffer, last_byte_time, emitted,
                   now, exc, intHist>>

\* `if frame_buffer and last_byte_time > 0:` / `if gap > FRAME_GAP_MS:`
CheckGap ==
    /\ pc = "gapcheck"
    /\ pc' = IF NewFrameStarts(frame_buffer, last_byte_time, current_time)
             THEN "emit_d" ELSE "extend"
    /\ UNCHANGED <<decVars, serVars, logState, rx, loopVars, now, exc, readHist, intHist>>

\* decode_frame(bytes(frame_buffer), ...); logfile.flush()
EmitOnBytes ==
    /\ pc = "emit_d"
    /\ pc' = "reset_d"
    /\ emitted' = Emit(emitted, frame_buffer)
    /\ UNCHANGED <<decVars, serVars, logState, rx, data, current_time, frame_buffer,
                   last_byte_time, now, exc, readHist, intHist>>

\* frame_buffer = bytearray()
ResetOnBytes ==
    /\ pc = "reset_d"
    /\ pc' = "extend"
    /\ frame_buffer' = <<>>
    /\ UNCHANGED <<decVars, serVars, logState, rx, data, current_time, last_byte_time,
                   emitted, now, exc, readHist, intHist>>

\* frame_buffer.extend(data)
ExtendBuffer ==
    /\ pc = "extend"
    /\ pc' = "stamp"
    /\ frame_buffer' = Extend(frame_buffer, data)
    /\ UNCHANGED <<decVars, serVars, logState, rx, data, current_time, last_byte_time,
                   emitted, now, exc, readHist, intHist>>

\* Mutant of StampLastByte: the time of the read is not recorded.
StampLastByte_Skip ==
    /\ pc = "stamp"
    /\ pc' = "loop"
    /\ UNCHANGED <<decVars, serVars, logState, rx, data, current_time, frame_buffer,
                   last_byte_time, emitted, now, exc, readHist, intHist>>

\* last_byte_time = current_time
StampLastByte ==
    /\ pc = "stamp"
    /\ pc' = "loop"
    /\ last_byte_time' = current_time
    /\ UNCHANGED <<decVars, serVars, logState, rx, data, current_time, frame_buffer,
                   emitted, now, exc, readHist, intHist>>

\* ------------------------------------------------- capture loop, idle path

\* `if ser.in_waiting > 0:` not taken.
PollIdle ==
    /\ pc = "loop"
    /\ Len(rx) = 0
    /\ pc' = "idle"
    /\ UNCHANGED <<decVars, serVars, logState, rx, loopVars, now, exc, readHist, intHist>>

\* `if frame_buffer:` current_time = time.time() * 1000; `if gap > FRAME_GAP_MS:`
CheckIdle ==
    /\ pc = "idle"
    /\ current_time' = IF frame_buffer # <<>> THEN now ELSE current_time
    /\ pc' = IF IdleFlushDue(frame_buffer, last_byte_time, now)
             THEN "emit_i" ELSE "sleep"
    /\ UNCHANGED <<decVars, serVars, logState, rx, data, frame_buffer, last_byte_time,
                   emitted, now, exc, readHist, intHist>>

\* decode_frame(bytes(frame_buffer), ...); logfile.flush()
EmitOnIdle ==
    /\ pc = "emit_i"
    /\ pc' = "reset_i"
    /\ emitted' = Emit(emitted, frame_buffer)
    /\ UNCHANGED <<decVars, serVars, logState, rx, data, current_time, frame_buffer,
                   last_byte_time, now, exc, readHist, intHist>>

\* frame_buffer = bytearray()
ResetOnIdle ==
    /\ pc = "reset_i"
    /\ pc' = "clear_i"
    /\ frame_buffer' = <<>>
    /\ UNCHANGED <<decVars, serVars, logState, rx, data, current_time, last_byte_time,
                   emitted, now, exc, readHist, intHist>>

\* last_byte_time = 0
ClearLastByte ==
    /\ pc = "clear_i"
    /\ pc' = "sleep"
    /\ last_byte_time' = 0
    /\ UNCHANGED <<decVars, serVars, logState, rx, data, current_time, frame_buffer,
                   emitted, now, exc, readHist, intHist>>

\* time.sleep(0.001): at least one millisecond passes.
IdleSleep ==
    /\ pc = "sleep"
    /\ now < MaxTime
    /\ pc' = "loop"
    /\ now' = now + 1
    /\ UNCHANGED <<decVars, serVars, logState, rx, loopVars, exc, readHist, intHist>>

\* ---------------------------------------------------------------- shutdown

\* KeyboardInterrupt raised at any position inside the `try:`.
Interrupt ==
    /\ pc \in LoopPcs
    /\ pc' = "except"
    /\ exc' = "interrupt"
    /\ intAt' = pc
    /\ intBuf' = frame_buffer
    /\ intCount' = Len(emitted)
    /\ UNCHANGED <<decVars, serVars, logState, rx, loopVars, now, readHist>>

\* An exception other than KeyboardInterrupt raised inside the `try:`:
\* ser.in_waiting or ser.read (transport error), decode_frame or
\* logfile.flush (sink write error).  `except KeyboardInterrupt` does not
\* catch it; control goes to `finally`.
LoopError ==
    /\ pc \in {"loop", "read", "emit_d", "emit_i", "except"}
    /\ pc' = "finally"
    /\ exc' = "error"
    /\ UNCHANGED <<decVars, serVars, logState, rx, loopVars, now, readHist, intHist>>

\* `except KeyboardInterrupt:` if frame_buffer: decode_frame(...)
HandleInterrupt ==
    /\ pc = "except"
    /\ pc' = "finally"
    /\ emitted' = ShutdownFlush(emitted, frame_buffer)
    /\ exc' = "none"
    /\ UNCHANGED <<decVars, serVars, logState, rx, data, current_time, frame_buffer,
                   last_byte_time, now, readHist, intHist>>

\* `finally: ser.close()`, then the `with` closes the log file; a pending
\* error propagates out of main().
CloseSerial ==
    /\ pc = "finally"
    /\ pc' = IF exc = "error" THEN "crashed" ELSE "done"
    /\ serState' = "closed"
    /\ logState' = "closed"
    /\ UNCHANGED <<decVars, rts, dtr, txCount, rx, loopVars, now, exc, readHist, intHist>>

\* ------------------------------------------------------------------- specs

Next ==
    \/ Tick
    \/ Arrive
    \/ OpenSerial
    \/ OpenSerialFail
    \/ SetRts
    \/ SetDtr
    \/ SettleBus
    \/ SetupError
    \/ OpenLog
    \/ OpenLogFail
    \/ PollBytes
    \/ ReadChunk
    \/ CheckGap
    \/ EmitOnBytes
    \/ ResetOnBytes
    \/ ExtendBuffer
    \/ StampLastByte
    \/ PollIdle
    \/ CheckIdle
    \/ EmitOnIdle
    \/ ResetOnIdle
    \/ ClearLastByte
    \/ IdleSleep
    \/ Interrupt
    \/ LoopError
    \/ HandleInterrupt
    \/ CloseSerial

Spec == Init /\ [][Next]_vars

\* ---------------------------------------------------- functions under test

\* Longest run of bytes after frame[2] in a generated frame body.
MaxRest == 3

\* Values of the address byte frame[0].
AddrSamples == {1, 132}

\* Values of a function byte frame[1] below 0x80.
FuncSamples == {0, 3, 4, 6}

\* Values of a function byte frame[1] from 0x80 up.
ExcFuncSamples == {128, 131, 132}

\* Values of frame[2] after a function byte below 0x80 (byte count,
\* register high byte).
Byte2Samples == {0, 1, 2, 4, 255}

\* Values of frame[2] after a function byte from 0x80 up (exception code).
ExcCodeSamples == (0 .. 9) \cup {255}

\* Values of the bytes after frame[2] of a frame with a function byte below
\* 0x80.
RestSamples == {0, 250, 255}

\* Value of the bytes after frame[2] of a frame with a function byte from
\* 0x80 up.
ExcRestSamples == {0}

\* The sequences of length n over S.
SeqsOfLen(S, n) == [1 .. n -> S]

\* Frame bodies of known content: the read request for one input register
\* at address 0, and input-register responses carrying one register at the
\* edges of the temperature range (-401, -400, 1250 and 1251 tenths).
KnownBodies ==
    {<<1, 4, 0, 0, 0, 1>>,
     <<1, 4, 2, 254, 111>>, <<1, 4, 2, 254, 112>>,
     <<1, 4, 2, 4, 226>>, <<1, 4, 2, 4, 227>>}

\* Generated frame bodies: nothing, an address, address and function, and
\* address, function, frame[2] followed by up to MaxRest further bytes; and
\* the known bodies.
Bodies ==
    KnownBodies
    \cup {<<>>}
    \cup {<<a>> : a \in AddrSamples}
    \cup {<<a, f>> : a \in AddrSamples, f \in FuncSamples \cup ExcFuncSamples}
    \cup UNION {{<<a, f, c>> \o r : a \in AddrSamples, f \in FuncSamples,
                                    c \in Byte2Samples, r \in SeqsOfLen(RestSamples, n)}
                : n \in 0 .. MaxRest}
    \cup UNION {{<<a, f, c>> \o r : a \in AddrSamples, f \in ExcFuncSamples,
                                    c \in ExcCodeSamples, r \in SeqsOfLen(ExcRestSamples, n)}
                : n \in 0 .. MaxRest}

\* How a trailer is put after a body: none, the little-endian checksum, or
\* the checksum with its low or its high byte changed.
SealKinds == {"none", "good", "lo_changed", "hi_changed"}

\* The frame made of body b and a trailer of kind k.
Sealed(b, k) ==
    LET c == calc_crc16(b)
        lo == c % 256
        hi == c \div 256
    IN  CASE k = "none" -> b
          [] k = "good" -> b \o <<lo, hi>>
          [] k = "lo_changed" -> b \o <<(lo + 1) % 256, hi>>
          [] k = "hi_changed" -> b \o <<lo, (hi + 128) % 256>>

\* A byte sequence is handed to one of the functions; the capture loop rests.
DecInit ==
    /\ body \in Bodies
    /\ seal \in SealKinds
    /\ input = Sealed(body, seal)
    /\ pc = "start"
    /\ serState = "unopened"
    /\ rts = FALSE
    /\ dtr = FALSE
    /\ txCount = 0
    /\ logState = "none"
    /\ rx = <<>>
    /\ data = <<>>
    /\ current_time = 0
    /\ frame_buffer = <<>>
    /\ last_byte_time = 0
    /\ emitted = <<>>
    /\ now = 1
    /\ exc = "none"
    /\ readBytes = <<>>
    /\ prevRead = 0
    /\ tight = TRUE
    /\ cuts = {}
    /\ intAt = "none"
    /\ intBuf = <<>>
    /\ intCount = 0
    /\ dpc = "input"
    /\ show_bad_crc = TRUE
    /\ crc_value = 0
    /\ crc_result = [ok |-> FALSE, calc_calls |-> 0]
    /\ verify_calls = 0
    /\ console = <<>>
    /\ logfile = <<>>

\* crc_value = calc_crc16(input)
CallCalcCrc16 ==
    /\ dpc = "input"
    /\ dpc' = "crc"
    /\ crc_value' = calc_crc16(input)
    /\ UNCHANGED <<mainVars, input, body, seal, show_bad_crc, crc_result,
                   verify_calls, console, logfile>>

\* crc_result = verify_crc(input)
CallVerifyCrc ==
    /\ dpc = "input"
    /\ dpc' = "verified"
    /\ crc_result' = VerifyCrcRun(input)
    /\ verify_calls' = 1
    /\ UNCHANGED <<mainVars, input, body, seal, show_bad_crc, crc_value,
                   console, logfile>>

\* decode_frame(input, timestamp, logfile, show_bad_crc) with either value of
\* the flag.
CallDecodeFrame ==
    /\ dpc = "input"
    /\ \E show \in BOOLEAN :
        LET out == decode_frame(input, show)
        IN  /\ show_bad_crc' = show
            /\ console' = console \o out.console
            /\ logfile' = logfile \o out.log
            /\ verify_calls' = out.verify_calls
    /\ dpc' = "decoded"
    /\ UNCHANGED <<mainVars, input, body, seal, crc_value, crc_result>>

DecNext ==
    \/ CallCalcCrc16
    \/ CallVerifyCrc
    \/ CallDecodeFrame

DecSpec == DecInit /\ [][DecNext]_vars

\* ------------------------------------------------------------------ claims

\* The bytes read so far that no emitted frame contains yet.
Unemitted ==
    SubSeq(readBytes, Len(Flatten(emitted)) + 1, Len(readBytes))

\* The interrupt arrived at a poll boundary or during the idle sleep, and
\* its handler has finished without a further error.
CleanStop ==
    /\ pc \in {"finally", "done"}
    /\ exc = "none"
    /\ intAt \in {"loop", "sleep"}

\* C1: at every poll boundary of the running loop, the emitted frames in
\* emission order followed by the pending buffer are exactly the bytes read
\* so far: every byte read is appended once, none duplicated, none dropped.
C1_BytesConserved ==
    pc = "loop" => Flatten(emitted) \o frame_buffer = readBytes

\* C1 witness: a poll boundary with an emitted frame, a non-empty pending
\* buffer and every byte of the run read.
C1_Witness ==
    /\ pc = "loop"
    /\ Len(emitted) >= 1
    /\ frame_buffer # <<>>
    /\ Len(readBytes) = MaxBytes

\* C2: chunking-invariance.  While every gap between consecutive chunk read
\* times is below the threshold, whatever the split and the idle polls in
\* between: any frame emitted is the concatenation of all chunks read (so
\* none is emitted before the last chunk is appended) and at most one is;
\* and an idle poll leaves the chunks un-emitted only if the silence it saw
\* did not exceed the threshold, otherwise exactly that one frame is out and
\* the buffer is empty.
C2_ChunkingInvariance ==
    (pc \in LoopPcs /\ tight /\ cuts = {} /\ readBytes # <<>>) =>
        /\ emitted \in {<<>>, <<readBytes>>}
        /\ pc = "sleep" =>
            \/ emitted = <<readBytes>> /\ frame_buffer = <<>>
            \/ /\ emitted = <<>>
               /\ frame_buffer = readBytes
               /\ current_time - prevRead <= FRAME_GAP_MS

\* C2 witness: a stream read as at least two chunks, all gaps below the
\* threshold, emitted as one frame by an idle poll.
C2_Witness ==
    /\ pc = "sleep"
    /\ tight
    /\ cuts = {}
    /\ Len(readBytes) = MaxBytes
    /\ Len(data) < Len(readBytes)
    /\ emitted = <<readBytes>>
    /\ frame_buffer = <<>>

\* The bytes read before the first gap above the threshold (frame A).
FrameA == SubSeq(readBytes, 1, CHOOSE c \in cuts : TRUE)

\* The bytes read after the first gap above the threshold (frame B).
FrameB == SubSeq(readBytes, (CHOOSE c \in cuts : TRUE) + 1, Len(readBytes))

\* C3: boundary correctness.  When exactly one gap between consecutive reads
\* exceeds the threshold and all others are below it, the frames emitted are
\* a prefix of <<A, B>>; A is out by the end of the poll that read B's
\* first chunk; an idle poll leaves B pending only if the silence it saw did
\* not exceed the threshold; and after a shutdown at a poll boundary or in
\* the idle sleep exactly the two frames A and B are out.
C3_BoundaryCorrectness ==
    (tight /\ Cardinality(cuts) = 1 /\ (pc \in LoopPcs \/ CleanStop)) =>
        /\ emitted \in {<<>>, <<FrameA>>, <<FrameA, FrameB>>}
        /\ pc \in {"loop", "idle", "sleep"} => emitted # <<>>
        /\ pc = "sleep" =>
            \/ emitted = <<FrameA, FrameB>> /\ frame_buffer = <<>>
            \/ /\ emitted = <<FrameA>>
               /\ frame_buffer = FrameB
               /\ current_time - prevRead <= FRAME_GAP_MS
        /\ CleanStop => emitted = <<FrameA, FrameB>>

\* C3 witness: two different frames, the boundary seen only by the
\* bytes-available poll that read B (no idle flush cleared last_byte_time),
\* B flushed by the shutdown.
C3_Witness ==
    /\ CleanStop
    /\ pc = "done"
    /\ tight
    /\ Cardinality(cuts) = 1
    /\ last_byte_time > 0
    /\ Len(emitted) = 2
    /\ emitted[1] # emitted[2]

\* C3 second witness state: both frames flushed by idle polls.
C3_WitnessIdle ==
    /\ pc = "sleep"
    /\ tight
    /\ Cardinality(cuts) = 1
    /\ emitted = <<FrameA, FrameB>>
    /\ last_byte_time = 0

\* C4: frames reach the sink in arrival order.  While the loop runs, the
\* emitted frames concatenated are a prefix of the bytes read, in read
\* order, and what is read but not yet emitted is held in the one pending
\* buffer only (together with the chunk of the poll in progress until it is
\* appended).
C4_ArrivalOrder ==
    pc \in LoopPcs =>
        /\ IsPrefix(Flatten(emitted), readBytes)
        /\ pc \in {"loop", "read", "idle", "emit_i", "sleep", "stamp"}
              => Unemitted = frame_buffer
        /\ pc \in {"gapcheck", "emit_d", "extend"}
              => Unemitted = frame_buffer \o data
        /\ pc = "reset_d" => Unemitted = data
        /\ pc \in {"reset_i", "clear_i"} => Unemitted = <<>>

\* C4 witness: two different frames emitted and a third one pending.
C4_Witness ==
    /\ pc = "loop"
    /\ Len(emitted) = 2
    /\ emitted[1] # emitted[2]
    /\ frame_buffer # <<>>

\* C5: after an operator interrupt at a poll boundary or during the idle
\* sleep, a non-empty pending buffer has been emitted as exactly one final
\* frame holding all buffered bytes (so every byte read is emitted), and an
\* empty one has added no frame.
C5_ShutdownFlush ==
    CleanStop =>
        /\ Len(emitted) = intCount + (IF intBuf # <<>> THEN 1 ELSE 0)
        /\ intBuf # <<>> => emitted[Len(emitted)] = intBuf
        /\ Flatten(emitted) = readBytes

\* C5 witness: stopped during the idle sleep with bytes pending, after an
\* earlier frame.
C5_Witness ==
    /\ CleanStop
    /\ pc = "done"
    /\ intAt = "sleep"
    /\ intBuf # <<>>
    /\ intCount >= 1
    /\ Len(emitted) = intCount + 1

\* C5 second witness state: stopped with an empty buffer, no final frame.
C5_WitnessEmpty ==
    /\ CleanStop
    /\ pc = "done"
    /\ intBuf = <<>>
    /\ Len(readBytes) > 0
    /\ Len(emitted) = intCount

\* The interrupt handler has run to its end (no error inside it).
Stopped ==
    /\ pc \in {"finally", "done"}
    /\ exc = "none"
    /\ intAt # "none"

\* C6: for an operator interrupt at any position of a loop iteration, every
\* frame is emitted exactly once: after the handler has run, the emitted
\* frames concatenated hold no byte twice, i.e. they are a prefix of the
\* bytes read.
C6_NoReEmission ==
    Stopped => IsPrefix(Flatten(emitted), readBytes)

\* C7: for an operator interrupt at any position of a loop iteration, every
\* byte read from the transport is in some emitted frame when the session
\* has ended.
C7_NoReadByteLost ==
    (Stopped /\ pc = "done") => IsPrefix(readBytes, Flatten(emitted))

\* C8: on an exit by an error other than the operator interrupt, the pending
\* buffer has been flushed when the transport is closed: no byte that was
\* read and not emitted remains.
C8_FlushOnEveryExit ==
    (serState = "closed" /\ exc = "error" /\ intAt = "none") =>
        IsPrefix(readBytes, Flatten(emitted))

\* C9: once the transport has been opened, it is closed on every path by
\* which the program terminates.
C9_TransportReleased ==
    (pc \in EndPcs /\ serState # "unopened") => serState = "closed"

\* C10: the session is passive: while the transport is open nothing has been
\* written to the bus and RTS and DTR are deasserted.
C10_Passive ==
    serState = "open" => (txCount = 0 /\ ~rts /\ ~dtr)

\* The trailer of a frame read as a little-endian 16-bit number.
LittleEndianTrailer(frm) == frm[Len(frm) - 1] + 256 * frm[Len(frm)]

\* C11: verify_crc fails closed: for every byte sequence of length 0, 1, 2
\* or 3 it returns false and makes no checksum computation.
C11_VerifyFailsClosed ==
    (dpc = "verified" /\ Len(input) < 4) =>
        (crc_result.ok = FALSE /\ crc_result.calc_calls = 0)

\* C11 witness: verify_crc has returned for a three-byte sequence whose last
\* two bytes are the little-endian checksum of its first byte.
C11_Witness ==
    /\ dpc = "verified"
    /\ Len(input) = 3
    /\ calc_crc16(<<input[1]>>) = LittleEndianTrailer(input)
    /\ ~crc_result.ok
    /\ crc_result.calc_calls = 0

\* C12: checksum round trip.  For every byte sequence of length >= 4,
\* verify_crc is true exactly when calc_crc16 over all bytes but the last two
\* equals the last two bytes read little-endian; a frame made by appending
\* the little-endian checksum to data of length >= 2 verifies, and the same
\* frame with its low or its high trailer byte changed does not.
C12_ChecksumRoundTrip ==
    (dpc = "verified" /\ Len(input) >= 4) =>
        /\ crc_result.ok
            <=> (calc_crc16(AllButLastTwo(input)) = LittleEndianTrailer(input))
        /\ (seal = "good" /\ Len(body) >= 2) => crc_result.ok
        /\ (seal \in {"lo_changed", "hi_changed"} /\ Len(body) >= 2)
            => ~crc_result.ok

\* C12 witness: a frame whose trailer is the checksum of its six data bytes,
\* low byte first and different from the high byte, has been verified.
C12_Witness ==
    /\ dpc = "verified"
    /\ seal = "good"
    /\ Len(body) = 6
    /\ input[7] # input[8]
    /\ crc_result.ok

\* C12 second witness state: the same kind of frame with its high trailer
\* byte changed has been rejected.
C12_WitnessChanged ==
    /\ dpc = "verified"
    /\ seal = "hi_changed"
    /\ Len(body) >= 2
    /\ ~crc_result.ok

\* The sixteen low bits of n, bit 0 first.
Bits16(n) == [i \in 0 .. 15 |-> BitAt(n, i) = 1]

\* Reference algorithm: the byte is XORed into the low byte of the
\* accumulator.
RefXorByte(acc, byte) ==
    [i \in 0 .. 15 |-> IF i < 8 THEN acc[i] # (BitAt(byte, i) = 1) ELSE acc[i]]

\* Reference algorithm: shift right by one.
RefShift(acc) == [i \in 0 .. 15 |-> IF i = 15 THEN FALSE ELSE acc[i + 1]]

\* Reference algorithm: one of the eight iterations.
RefStep(acc) ==
    IF acc[0]
    THEN [i \in 0 .. 15 |-> RefShift(acc)[i] # Bits16(40961)[i]]
    ELSE RefShift(acc)

\* Reference algorithm: the accumulator after one byte.
RefByte(acc, byte) ==
    RefStep(RefStep(RefStep(RefStep(
        RefStep(RefStep(RefStep(RefStep(RefXorByte(acc, byte)))))))))

\* The value calc_crc16 gives for the first k bytes of the sequence under
\* test; for the whole sequence it is the value the call returned.
PrefixCrc(k) ==
    IF k = Len(input) THEN crc_value ELSE calc_crc16(SubSeq(input, 1, k))

\* C13: calc_crc16 equals the reference algorithm on every byte sequence:
\* the empty sequence gives 0xFFFF, and the value for k bytes is the value
\* for k - 1 bytes with byte k XORed into its low byte and then shifted
\* right eight times, with XOR 0xA001 whenever the low bit was set; every
\* value is within 16 bits, and 01 84 02 and 01 04 02 00 FA give their known
\* checksums 0xC1C2 and 0x7339.
C13_ReferenceChecksum ==
    dpc = "crc" =>
        /\ PrefixCrc(0) = 65535
        /\ \A k \in 1 .. Len(input) :
            LET before == PrefixCrc(k - 1)
                after == PrefixCrc(k)
            IN  /\ before \in 0 .. 65535
                /\ after \in 0 .. 65535
                /\ Bits16(after) = RefByte(Bits16(before), input[k])
        /\ input = <<1, 132, 2>> => crc_value = 49602
        /\ input = <<1, 4, 2, 0, 250>> => crc_value = 29497

\* C13 witness: the checksum of a sequence of eight bytes has been computed
\* and its last byte changed both halves of the accumulator.
C13_Witness ==
    /\ dpc = "crc"
    /\ Len(input) = 8
    /\ crc_value \notin {0, 65535}
    /\ crc_value % 256 # PrefixCrc(7) % 256
    /\ crc_value \div 256 # PrefixCrc(7) \div 256

\* C13 second witness state: the checksum of the empty sequence.
C13_WitnessEmpty == dpc = "crc" /\ input = <<>> /\ crc_value = 65535

\* The frame under test passes the checksum test: it has four bytes or more
\* and its trailer is the little-endian checksum of the bytes before it.
ChecksumValid ==
    /\ Len(input) >= 4
    /\ calc_crc16(AllButLastTwo(input)) = LittleEndianTrailer(input)

\* `show_bad_crc = '--clean' not in flags`: the clean flag is set.
Clean == ~show_bad_crc

\* The classifications of a frame of four bytes or more.
ClassifiedKinds == {"REQUEST", "RESPONSE", "EXCEPTION", "FRAME"}

\* The fields a line gets from address, function, payload or checksum
\* decoding.
DecodedFields ==
    {"addr", "func", "func_name", "reg", "count", "bytes", "values", "data",
     "temp_info", "exc", "exc_name", "crc"}

\* The log lines that hold the full hex dump of the frame under test.
DumpLines ==
    {i \in DOMAIN logfile :
        /\ "hex" \in DOMAIN logfile[i]
        /\ Len(logfile[i].hex) = 2 * Len(input)
        /\ logfile[i].hex = HexUpper(input)}

\* The log lines that classify the frame under test with its address and its
\* seven-bit function.
ClassifiedLines ==
    {i \in DOMAIN logfile :
        /\ logfile[i].kind \in ClassifiedKinds
        /\ logfile[i].addr = input[1]
        /\ logfile[i].func = input[2] % 128}

\* C14: every frame shorter than 4 bytes is classified incomplete: the log
\* gets exactly its INCOMPLETE line, verify_crc is not called, and no line of
\* the log or of the console carries a decoded address, function, payload or
\* checksum field.
C14_ShortFrameIncomplete ==
    (dpc = "decoded" /\ Len(input) < 4) =>
        /\ logfile = <<[kind |-> "INCOMPLETE", hex |-> HexUpper(input)]>>
        /\ verify_calls = 0
        /\ \A i \in DOMAIN console :
            /\ console[i].kind = "Incomplete frame"
            /\ DOMAIN console[i] \cap DecodedFields = {}

\* C14 witness: a three-byte frame holding an address, an exception function
\* byte and a code has been decoded and logged as INCOMPLETE.
C14_Witness ==
    /\ dpc = "decoded"
    /\ Len(input) = 3
    /\ input[2] >= 128
    /\ Len(logfile) = 1
    /\ logfile[1].kind = "INCOMPLETE"
    /\ verify_calls = 0

\* C15: an invalid checksum never suppresses decoding: for every frame of
\* four bytes or more whose checksum does not verify, and for either value
\* of the flag, the log holds a classified line with the frame's address and
\* function.
C15_BadChecksumStillDecoded ==
    (dpc = "decoded" /\ Len(input) >= 4 /\ ~ChecksumValid) =>
        ClassifiedLines # {}

\* C16: for every frame and both flag values decode_frame writes at least
\* one log line holding the frame's full hex dump, two digits for each byte.
C16_AlwaysLogged ==
    dpc = "decoded" => DumpLines # {}

\* C16 witness: with the clean flag set, a frame of four bytes or more whose
\* checksum does not verify has been decoded and its dump is in the log.
C16_Witness ==
    /\ dpc = "decoded"
    /\ Clean
    /\ Len(input) >= 4
    /\ ~ChecksumValid
    /\ DumpLines # {}

\* C16 second witness state: an incomplete frame's dump is in the log.
C16_WitnessIncomplete ==
    dpc = "decoded" /\ Clean /\ Len(input) \in 1 .. 3 /\ DumpLines # {}

\* C17: with the clean flag set a frame is shown on the console exactly when
\* it has four bytes or more and its checksum verifies; with the flag unset
\* every frame is shown.
C17_ConsoleFilter ==
    dpc = "decoded" =>
        /\ Clean => (console # <<>> <=> ChecksumValid)
        /\ ~Clean => console # <<>>

\* C17 witness: with the clean flag set a frame whose checksum does not
\* verify has been decoded and the console is empty.
C17_Witness ==
    /\ dpc = "decoded"
    /\ Clean
    /\ Len(input) >= 4
    /\ ~ChecksumValid
    /\ console = <<>>

\* C17 second witness state: with the clean flag set a frame whose checksum
\* verifies is on the console.
C17_WitnessShown ==
    dpc = "decoded" /\ Clean /\ ChecksumValid /\ Len(console) = 1

\* C18: every frame, of every length and for both flag values, produces in
\* the log a line holding its hex dump and a classified line (REQUEST,
\* RESPONSE, EXCEPTION, FRAME or INCOMPLETE).
C18_DumpAndClassification ==
    dpc = "decoded" =>
        /\ DumpLines # {}
        /\ \E i \in DOMAIN logfile :
            logfile[i].kind \in ClassifiedKinds \cup {"INCOMPLETE"}

\* C19: every classified line written to the log for a frame of four bytes
\* or more carries the checksum status, OK when the checksum verifies and
\* BAD otherwise.
C19_StatusOnEveryClassifiedLine ==
    (dpc = "decoded" /\ Len(input) >= 4) =>
        \A i \in DOMAIN logfile :
            logfile[i].kind \in ClassifiedKinds =>
                /\ "crc" \in DOMAIN logfile[i]
                /\ logfile[i].crc = IF ChecksumValid THEN "OK" ELSE "BAD"

\* The name the exception table gives a code.
ExceptionName(code) ==
    CASE code = 1 -> "Illegal Function"
      [] code = 2 -> "Illegal Data Address"
      [] code = 3 -> "Illegal Data Value"
      [] code = 4 -> "Slave Device Failure"
      [] code = 5 -> "Acknowledge"
      [] code = 6 -> "Slave Device Busy"
      [] code = 8 -> "Memory Parity Error"
      [] OTHER -> "Unknown"

\* The exception classification expected for the frame under test.
ExpectedException ==
    [kind |-> "EXCEPTION", addr |-> input[1], func |-> input[2] - 128,
     exc |-> input[3], exc_name |-> ExceptionName(input[3])]

\* C20: every frame of four bytes or more whose function byte is 0x80 or
\* more is classified exception, with function = function byte - 0x80,
\* code = frame[2] and the name of the code in the table or "Unknown".
C20_ExceptionClassified ==
    (dpc = "decoded" /\ Len(input) >= 4 /\ input[2] >= 128) =>
        \E i \in DOMAIN logfile : logfile[i] = ExpectedException

\* C20 away from the filter: the same holds for every such frame that is not
\* both checksum-invalid and decoded with the clean flag set.
C20_ExceptionClassifiedUnfiltered ==
    (dpc = "decoded" /\ Len(input) >= 4 /\ input[2] >= 128
        /\ (ChecksumValid \/ ~Clean)) =>
        /\ logfile[2] = ExpectedException
        /\ console[1].kind = "EXCEPTION"
        /\ console[1].exc = input[3]
        /\ console[1].exc_name = ExceptionName(input[3])

\* The frame under test has four bytes or more and a function byte below
\* 0x80.
NonException == Len(input) >= 4 /\ input[2] < 128

\* The frame under test is held back by the filter: the clean flag is set and
\* its checksum does not verify.
Filtered == Clean /\ Len(input) >= 4 /\ ~ChecksumValid

\* The checksum status expected for the frame under test.
ExpectedStatus == IF ChecksumValid THEN "OK" ELSE "BAD"

\* The request expected for an eight-byte frame: start address from bytes 2
\* and 3, count from bytes 4 and 5, both big-endian.
ExpectedRequest ==
    [kind |-> "REQUEST", addr |-> input[1], func |-> input[2],
     reg |-> input[3] * 256 + input[4], count |-> input[5] * 256 + input[6],
     crc |-> ExpectedStatus]

\* Index of the last byte of the block frame[3 : 3 + frame[2]].
BlockEnd == IF 3 + input[3] < Len(input) THEN 3 + input[3] ELSE Len(input)

\* The block frame[3 : 3 + frame[2]].
ExpectedBlock == [j \in 1 .. BlockEnd - 3 |-> input[3 + j]]

\* Two's-complement reading of a 16-bit raw value.
TwosComplement(raw) == IF raw >= 32768 THEN raw - 65536 ELSE raw

\* The values expected of a function-4 response: the consecutive pairs of
\* the block, big-endian, signed.
ExpectedValues ==
    [k \in 1 .. (BlockEnd - 3) \div 2 |->
        TwosComplement(input[2 + 2 * k] * 256 + input[3 + 2 * k])]

\* C21: every non-exception frame with function 4 and length exactly 8 is
\* classified request with start address frame[2]*256 + frame[3] and count
\* frame[4]*256 + frame[5]; 01 04 00 00 00 01 with its little-endian
\* checksum gives address 1, function 4, start 0, count 1, checksum OK.
C21_InputRequest ==
    (dpc = "decoded" /\ NonException /\ input[2] = 4 /\ Len(input) = 8) =>
        /\ \E i \in DOMAIN logfile : logfile[i] = ExpectedRequest
        /\ (body = <<1, 4, 0, 0, 0, 1>> /\ seal = "good") =>
            \E i \in DOMAIN logfile :
                logfile[i] = [kind |-> "REQUEST", addr |-> 1, func |-> 4,
                              reg |-> 0, count |-> 1, crc |-> "OK"]

\* C21 away from the filter: the same for every such frame that the filter
\* does not hold back; the console shows the same request.
C21_InputRequestUnfiltered ==
    (dpc = "decoded" /\ NonException /\ input[2] = 4 /\ Len(input) = 8
        /\ ~Filtered) =>
        /\ logfile[2] = ExpectedRequest
        /\ console[1].kind = "REQUEST"
        /\ console[1].reg = ExpectedRequest.reg
        /\ console[1].count = ExpectedRequest.count
        /\ (body = <<1, 4, 0, 0, 0, 1>> /\ seal = "good") =>
            logfile[2] = [kind |-> "REQUEST", addr |-> 1, func |-> 4,
                          reg |-> 0, count |-> 1, crc |-> "OK"]

\* C22: every non-exception frame with function 4 and a length of 4 or more
\* other than 8 is classified response with byte count frame[2] and, as
\* values, the consecutive byte pairs after the byte count read big-endian
\* as signed 16-bit numbers; every value lies in -32768 .. 32767.
C22_InputResponse ==
    (dpc = "decoded" /\ NonException /\ input[2] = 4 /\ Len(input) # 8) =>
        \E i \in DOMAIN logfile :
            /\ logfile[i] = [kind |-> "RESPONSE", addr |-> input[1],
                             func |-> 4, bytes |-> input[3],
                             values |-> ExpectedValues, crc |-> ExpectedStatus]
            /\ \A k \in DOMAIN logfile[i].values :
                logfile[i].values[k] \in (0 - 32768) .. 32767

\* C22 away from the filter.
C22_InputResponseUnfiltered ==
    (dpc = "decoded" /\ NonException /\ input[2] = 4 /\ Len(input) # 8
        /\ ~Filtered) =>
        /\ logfile[2] = [kind |-> "RESPONSE", addr |-> input[1], func |-> 4,
                         bytes |-> input[3], values |-> ExpectedValues,
                         crc |-> ExpectedStatus]
        /\ console[1].values = ExpectedValues
        /\ \A k \in DOMAIN ExpectedValues :
            ExpectedValues[k] \in (0 - 32768) .. 32767

\* The annotation expected after the values whose first one is v, by
\* precedence: sensor error, protocol error, scaled quantity, out of range.
AnnotationFits(info, v) ==
    /\ v = 0 => info.note = "0x0000 SENSOR ERROR"
    /\ v = 0 - 1 => info.note = "0xFFFF MODBUS ERROR"
    /\ (v \notin {0, 0 - 1} /\ 0 - 400 <= v /\ v <= 1250) =>
        /\ info.note = "C"
        /\ info.temp_c.tenth \in 0 .. 9
        /\ info.temp_c.neg = (v < 0)
        /\ 10 * info.temp_c.whole + info.temp_c.tenth
            = (IF v < 0 THEN 0 - v ELSE v)
    /\ (v < 0 - 400 \/ v > 1250) => info.note = "OUT OF RANGE"
    /\ v = 250 => info.temp_c = [neg |-> FALSE, whole |-> 25, tenth |-> 0]

\* C23: a function-4 response with at least one value carries one
\* annotation chosen from its first value v: 0 gives the sensor-error marker,
\* -1 the protocol-error marker, otherwise -400 <= v <= 1250 gives v/10 with
\* one decimal (250 gives 25.0), otherwise the out-of-range marker; a
\* response with no value and every function-3 response carry none.
C23_Annotation ==
    dpc = "decoded" =>
        \A i \in DOMAIN console :
            console[i].kind = "RESPONSE" =>
                IF console[i].func = 4
                THEN IF ExpectedValues = <<>>
                     THEN console[i].temp_info.note = ""
                     ELSE AnnotationFits(console[i].temp_info, ExpectedValues[1])
                ELSE "temp_info" \notin DOMAIN console[i]

\* C23 witness: a response whose register is 0 has been decoded and carries
\* the sensor-error marker.
C23_Witness ==
    /\ dpc = "decoded"
    /\ Len(console) = 1
    /\ console[1].kind = "RESPONSE"
    /\ console[1].func = 4
    /\ console[1].values # <<>>
    /\ console[1].values[1] = 0
    /\ console[1].temp_info.note = "0x0000 SENSOR ERROR"

\* C23 second witness state: the first value is -400, the lower edge of the
\* range, and the annotation is -40.0.
C23_WitnessEdges ==
    /\ dpc = "decoded"
    /\ Len(console) = 1
    /\ console[1].kind = "RESPONSE"
    /\ console[1].func = 4
    /\ console[1].values # <<>>
    /\ console[1].values[1] = 0 - 400
    /\ console[1].temp_info.temp_c = [neg |-> TRUE, whole |-> 40, tenth |-> 0]

\* The response expected for a function-3 frame: the block as a hex dump.
ExpectedHoldingResponse ==
    [kind |-> "RESPONSE", addr |-> input[1], func |-> 3, bytes |-> input[3],
     data |-> HexUpper(ExpectedBlock), crc |-> ExpectedStatus]

\* C24: a non-exception frame with function 3 and length 8 is a request with
\* big-endian start address (bytes 2-3) and count (bytes 4-5); with any other
\* length of 4 or more it is a response with byte count frame[2] and the raw
\* block frame[3 : 3 + byte count], without values or annotation.
C24_HoldingRegisters ==
    (dpc = "decoded" /\ NonException /\ input[2] = 3) =>
        \E i \in DOMAIN logfile :
            logfile[i] = IF Len(input) = 8 THEN ExpectedRequest
                         ELSE ExpectedHoldingResponse

\* C24 away from the filter; the console line of a response has the block
\* and neither values nor annotation.
C24_HoldingRegistersUnfiltered ==
    (dpc = "decoded" /\ NonException /\ input[2] = 3 /\ ~Filtered) =>
        /\ logfile[2] = IF Len(input) = 8 THEN ExpectedRequest
                        ELSE ExpectedHoldingResponse
        /\ console[1].kind = logfile[2].kind
        /\ Len(input) # 8 =>
            /\ console[1].data = HexUpper(ExpectedBlock)
            /\ DOMAIN console[1] \cap {"values", "temp_info"} = {}

\* The generic classification expected for the frame under test.
ExpectedGeneric ==
    [kind |-> "FRAME", addr |-> input[1], func |-> input[2],
     len |-> Len(input), hex |-> HexUpper(input), crc |-> ExpectedStatus]

\* C25: every non-exception frame of four bytes or more whose function is
\* neither 3 nor 4 (function 0 and functions without a name included) is
\* classified generic, with the raw bytes as its only payload.
C25_Generic ==
    (dpc = "decoded" /\ NonException /\ input[2] \notin {3, 4}) =>
        \E i \in DOMAIN logfile : logfile[i] = ExpectedGeneric

\* C25 away from the filter.
C25_GenericUnfiltered ==
    (dpc = "decoded" /\ NonException /\ input[2] \notin {3, 4} /\ ~Filtered) =>
        /\ logfile[2] = ExpectedGeneric
        /\ console[1].kind = "FRAME"
        /\ console[1].func_name
            = (IF input[2] = 6 THEN "Write Single Register" ELSE "Unknown")

\* The log lines that classify the frame under test.
ClassificationLines ==
    {i \in DOMAIN logfile :
        logfile[i].kind \in ClassifiedKinds \cup {"INCOMPLETE"}}

\* C26: decoding is total: for every byte sequence, the empty one included,
\* decode_frame finishes and yields exactly one classification among
\* incomplete, exception, request, response and generic.
C26_DecodingTotal ==
    dpc = "decoded" => Cardinality(ClassificationLines) = 1

\* C26 away from the filter.
C26_DecodingTotalUnfiltered ==
    (dpc = "decoded" /\ ~Filtered) => Cardinality(ClassificationLines) = 1

\* C27: if the serial transport cannot be opened the process exits at once
\* with the error (sys.exit(1)): the transport is not open, the log file was
\* not created, nothing was read or emitted, and no further step (no retry,
\* no loop iteration) follows.
C27_OpenFailureExits ==
    pc = "exited" =>
        /\ exc = "error"
        /\ serState = "unopened"
        /\ logState = "none"
        /\ readBytes = <<>>
        /\ emitted = <<>>
        /\ ~ENABLED Next

\* C27 witness: serial.Serial has raised and the process has exited.
C27_Witness ==
    pc = "exited" /\ exc = "error" /\ serState = "unopened" /\ logState = "none"

\* The chunk just read begins a new frame: the pending buffer is non-empty
\* and the read came more than the threshold after the last appended byte.
GapSeen ==
    frame_buffer # <<>> /\ current_time - last_byte_time > FRAME_GAP_MS

\* What C28 asks of one step of a bytes-available poll.
FlushBeforeAppendStep ==
    /\ (pc = "gapcheck" /\ GapSeen /\ pc' \notin {"gapcheck", "except"})
        => pc' = "emit_d"
    /\ (pc = "emit_d" /\ pc' = "reset_d")
        => /\ frame_buffer # <<>>
           /\ emitted' = Append(emitted, frame_buffer)
           /\ readBytes = Flatten(emitted') \o data
    /\ (pc = "stamp" /\ pc' = "loop" /\ last_byte_time > 0
            /\ current_time - last_byte_time > FRAME_GAP_MS)
        => /\ emitted # <<>>
           /\ frame_buffer' = data
           /\ readBytes = Flatten(emitted) \o data
           /\ last_byte_time' = prevRead
           /\ last_byte_time' = now

\* C28: in a bytes-available poll where the pending buffer is non-empty and
\* now - last_byte_time exceeds the threshold, the buffer is emitted before
\* the chunk is appended: the emitted frame ends where the chunk begins, and
\* at the end of the poll the pending buffer is exactly the chunk and
\* last_byte_time is the time of the read.  (At a poll's start the buffer is
\* non-empty exactly when last_byte_time is set.)
C28_FlushBeforeAppend ==
    /\ [](pc \in {"loop", "read", "gapcheck"}
            => (frame_buffer # <<>> <=> last_byte_time > 0))
    /\ [][FlushBeforeAppendStep]_vars

\* C28 witness: a poll that saw the gap has emitted the old buffer and
\* appended the chunk; the time stamp is about to be set.
C28_Witness ==
    /\ pc = "stamp"
    /\ last_byte_time > 0
    /\ current_time - last_byte_time > FRAME_GAP_MS
    /\ emitted # <<>>
    /\ frame_buffer = data
    /\ emitted[Len(emitted)] # data

\* What C29 asks of one step of the running loop.
NoPrematureFlushStep ==
    /\ (pc \in LoopPcs /\ emitted' # emitted)
        => /\ pc \in {"emit_d", "emit_i"}
           /\ emitted' = Append(emitted, frame_buffer)
           /\ frame_buffer # <<>>
           /\ last_byte_time > 0
           /\ current_time - last_byte_time > FRAME_GAP_MS
           /\ pc = "emit_i" => (last_byte_time = prevRead /\ current_time = now)
    /\ (pc = "gapcheck" /\ current_time - last_byte_time <= FRAME_GAP_MS
            /\ pc' # "gapcheck")
        => pc' \in {"extend", "except"}
    /\ (pc = "idle" /\ now - last_byte_time <= FRAME_GAP_MS /\ pc' # "idle")
        => pc' \in {"sleep", "except"}

\* C29: no premature flush: while the loop is running a frame is emitted only
\* in a poll where the pending buffer is non-empty and the time since the
\* last appended byte is strictly greater than the threshold; a gap equal to
\* the threshold or smaller never leads to a flush, in the bytes-available
\* path and in the idle path alike.
C29_NoPrematureFlush == [][NoPrematureFlushStep]_vars

\* C29 witness: an idle poll has seen a gap of exactly the threshold and has
\* left the buffer pending; nothing was emitted.
C29_Witness ==
    /\ pc = "sleep"
    /\ frame_buffer # <<>>
    /\ current_time - last_byte_time = FRAME_GAP_MS
    /\ emitted = <<>>

\* C29 second witness state: a bytes-available poll has seen a gap of
\* exactly the threshold and appends the chunk to the pending buffer.
C29_WitnessBytes ==
    /\ pc = "extend"
    /\ frame_buffer # <<>>
    /\ current_time - last_byte_time = FRAME_GAP_MS
    /\ emitted = <<>>

\* C29 third witness state: a frame was emitted at a gap one above the
\* threshold.
C29_WitnessFlush ==
    /\ pc = "reset_i"
    /\ current_time - last_byte_time = FRAME_GAP_MS + 1
    /\ emitted = <<frame_buffer>>

\* ------------------------------------------------- the loop that keeps polling

\* One statement of main() on a run in which nothing fails: the setup, then
\* the iterations of the `while True:` loop.
LoopStep ==
    \/ OpenSerial
    \/ SetRts
    \/ SetDtr
    \/ SettleBus
    \/ OpenLog
    \/ PollBytes
    \/ ReadChunk
    \/ CheckGap
    \/ EmitOnBytes
    \/ ResetOnBytes
    \/ ExtendBuffer
    \/ StampLastByte
    \/ PollIdle
    \/ CheckIdle
    \/ EmitOnIdle
    \/ ResetOnIdle
    \/ ClearLastByte
    \/ IdleSleep

\* The running program and its environment: bytes arrive and the clock moves
\* between statements; no exception and no Ctrl+C ends the loop.
LiveNext ==
    \/ Tick
    \/ Arrive
    \/ LoopStep

\* The interpreter goes on executing the next statement of main(); the
\* `time.sleep(0.001)` of an idle iteration returns.  Nothing obliges a byte
\* to arrive.
LiveSpec == Init /\ [][LiveNext]_vars /\ WF_vars(LoopStep)

\* The loop holds unflushed bytes, the receive queue is empty, and the clock
\* can still advance past the gap threshold.
PendingInSilence ==
    /\ pc \in LoopPcs
    /\ frame_buffer # <<>>
    /\ rx = <<>>
    /\ now + FRAME_GAP_MS < MaxTime

\* An idle poll has flushed: the buffer is empty, last_byte_time is cleared
\* and every byte read so far is in a completed frame.
IdleFlushed ==
    /\ pc = "sleep"
    /\ frame_buffer = <<>>
    /\ last_byte_time = 0
    /\ emitted # <<>>
    /\ Flatten(emitted) = readBytes

\* C30: a non-empty pending buffer is eventually emitted by an idle poll,
\* leaving the buffer empty and last_byte_time cleared, unless a further byte
\* arrives first; no further byte is needed for the flush.
C30_EventualFlush == PendingInSilence ~> (IdleFlushed \/ rx # <<>>)

\* An idle poll has flushed a frame while the line could still deliver more.
C30_Witness ==
    /\ IdleFlushed
    /\ rx = <<>>
    /\ Len(readBytes) \in 1..(MaxBytes - 1)

\* -------------------------------------------------------- four-byte frames

\* The frame under test has exactly four bytes.
FourBytes == Len(input) = 4

\* The status of a four-byte frame whose checksum is taken over its first
\* two bytes and compared with bytes 2 and 3 read little-endian.
FourByteStatus ==
    IF calc_crc16(<<input[1], input[2]>>) = input[3] + 256 * input[4]
    THEN "OK" ELSE "BAD"

\* The log line `ln` classifies a four-byte frame by the dispatch rules:
\* exception for a function byte of 0x80 or more, response with byte count
\* frame[2] (and, for function 4, no values) for functions 3 and 4, generic
\* otherwise.
FourByteDispatch(ln) ==
    /\ ln.addr = input[1]
    /\ ln.func = input[2] % 128
    /\ IF input[2] >= 128
       THEN ln.kind = "EXCEPTION" /\ ln.exc = input[3]
       ELSE IF input[2] \in {3, 4}
            THEN /\ ln.kind = "RESPONSE"
                 /\ ln.bytes = input[3]
                 /\ ln.crc = FourByteStatus
                 /\ input[2] = 4 => ln.values = <<>>
            ELSE /\ ln.kind = "FRAME"
                 /\ ln.len = 4
                 /\ ln.crc = FourByteStatus

\* C31: a frame of exactly 4 bytes is never classified incomplete; it is
\* classified exception, response (byte count frame[2], no values) or
\* generic by its function byte, with its checksum verified over its first
\* two bytes.
C31_FourByteFrame ==
    (dpc = "decoded" /\ FourBytes) =>
        /\ \A i \in DOMAIN logfile : logfile[i].kind # "INCOMPLETE"
        /\ verify_calls = 1
        /\ \E i \in DOMAIN logfile :
            logfile[i].kind \in ClassifiedKinds /\ FourByteDispatch(logfile[i])

\* C31 away from the filter: the same for every four-byte frame that the
\* filter does not hold back.
C31_FourByteFrameUnfiltered ==
    (dpc = "decoded" /\ FourBytes /\ ~Filtered) =>
        /\ \A i \in DOMAIN logfile : logfile[i].kind # "INCOMPLETE"
        /\ verify_calls = 1
        /\ Len(logfile) = 2
        /\ FourByteDispatch(logfile[2])

\* ------------------------------------------------------- the pending buffer

\* What C32 asks of one step: the buffer changes only by appending the chunk
\* just read or by the reset that follows an emission of its content; an
\* emission inside the loop is followed by that reset before anything else
\* the loop does; and the buffer an append produces holds no emitted byte.
BufferOwnedStep ==
    /\ frame_buffer' # frame_buffer
        => \/ /\ pc = "extend"
              /\ data # <<>>
              /\ frame_buffer' = frame_buffer \o data
           \/ /\ pc \in {"reset_d", "reset_i"}
              /\ frame_buffer' = <<>>
              /\ emitted # <<>>
              /\ emitted[Len(emitted)] = frame_buffer
    /\ (pc \in LoopPcs /\ emitted' # emitted)
        => pc' \in {"reset_d", "reset_i"}
    /\ (pc \in {"reset_d", "reset_i"} /\ pc' \in LoopPcs /\ pc' # pc)
        => frame_buffer' = <<>>
    /\ (pc = "extend" /\ pc' = "stamp")
        => Flatten(emitted) \o frame_buffer' = readBytes

\* C32: the pending buffer is mutated only by append and reset, and inside
\* the loop it is reset exactly when a flush occurs: after every emission
\* the buffer is emptied before any further byte is appended, and it never
\* loses bytes other than by the reset that follows their emission.
C32_AppendAndReset == [][BufferOwnedStep]_vars

\* C32 witness: after an emission in a bytes-available poll the buffer was
\* reset and the chunk appended to the empty buffer.
C32_Witness ==
    /\ pc = "stamp"
    /\ Len(emitted) >= 1
    /\ data # <<>>
    /\ frame_buffer = data
    /\ Flatten(emitted) \o data = readBytes

\* C32 second witness state: an idle flush has emitted the buffer and reset
\* it.
C32_WitnessIdle ==
    /\ pc = "clear_i"
    /\ frame_buffer = <<>>
    /\ emitted # <<>>
    /\ Flatten(emitted) = readBytes

\* C32 third witness state: a chunk was appended to a non-empty buffer.
C32_WitnessAppend ==
    /\ pc = "stamp"
    /\ Len(frame_buffer) > Len(data)
    /\ data # <<>>

\* ------------------------------------------------- values and checksum bytes

\* Number of data bytes of a response frame: what lies between the byte
\* count frame[2] and the two trailing checksum bytes.
DataLength == IF Len(input) > 5 THEN Len(input) - 5 ELSE 0

\* Number of values the data bytes can give under the declared byte count.
DataValueCount ==
    (IF input[3] < DataLength THEN input[3] ELSE DataLength) \div 2

\* The log line `ln` is a function-4 response whose values are the
\* consecutive pairs of data bytes and nothing else.
ValuesFromData(ln) ==
    /\ Len(ln.values) = DataValueCount
    /\ \A k \in 1 .. DataValueCount :
        ln.values[k] = TwosComplement(input[2 + 2 * k] * 256 + input[3 + 2 * k])

\* C33: the values of a function-4 response come from the frame's data
\* bytes only: whatever byte count frame[2] declares, there are
\* floor(min(byte_count, data length) / 2) values, an odd trailing byte is
\* ignored, and no value is built from the two trailing checksum bytes.
C33_ValuesFromDataOnly ==
    dpc = "decoded" =>
        \A i \in DOMAIN logfile :
            (logfile[i].kind = "RESPONSE" /\ logfile[i].func = 4)
                => ValuesFromData(logfile[i])

\* C33 where the declared byte count does not exceed the data present.
C33_ValuesWithinDeclaredData ==
    (dpc = "decoded" /\ Len(input) >= 4 /\ input[3] <= DataLength) =>
        \A i \in DOMAIN logfile :
            (logfile[i].kind = "RESPONSE" /\ logfile[i].func = 4)
                => ValuesFromData(logfile[i])

\* ------------------------------------------------------ the flag and the log

\* The lines decode_frame writes to the log for the frame under test when
\* the flag has the other value.
LogUnderOtherFlag == decode_frame(input, ~show_bad_crc).log

\* C34: the console filter affects the console only: the log lines written
\* for a frame are the same whether show_bad_crc is true or false.
C34_LogIndependentOfFlag ==
    dpc = "decoded" => logfile = LogUnderOtherFlag

\* C34 for the frames the filter never holds back: those shorter than 4
\* bytes and those whose checksum verifies.
C34_LogIndependentOfFlagValid ==
    (dpc = "decoded" /\ (Len(input) < 4 \/ ChecksumValid)) =>
        logfile = LogUnderOtherFlag

\* ------------------------------------------- what the classification reads

\* The frame of the length and function byte of the frame under test whose
\* other bytes (address, payload, checksum) are all zero.
Canonical ==
    [i \in 1 .. Len(input) |-> IF i = 2 THEN input[2] ELSE 0]

\* The classification decode_frame gives `frm` with the filter off: the kind
\* of the last line it logs.
KindUnfiltered(frm) ==
    LET lines == decode_frame(frm, TRUE).log
    IN  lines[Len(lines)].kind

\* C35: with the console filter off, two frames of equal length and equal
\* function byte get the same classification whatever their address,
\* payload and checksum bytes: every frame is classified as the all-zero
\* frame of its length and function byte is, so checksum validity never
\* changes the classification.
C35_ClassificationReadsLengthAndFunction ==
    (dpc = "decoded" /\ show_bad_crc) =>
        /\ logfile # <<>>
        /\ logfile[Len(logfile)].kind \in ClassifiedKinds \cup {"INCOMPLETE"}
        /\ logfile[Len(logfile)].kind = KindUnfiltered(Canonical)

\* C35 witness: a response whose checksum verifies is classified as the
\* all-zero frame of its length and function, whose checksum does not.
C35_Witness ==
    /\ dpc = "decoded"
    /\ show_bad_crc
    /\ ChecksumValid
    /\ input[1] # 0
    /\ ~verify_crc(Canonical)
    /\ logfile[Len(logfile)].kind = "RESPONSE"
    /\ KindUnfiltered(Canonical) = "RESPONSE"

\* ------------------------------------------------------- no empty frame

\* C36: no empty CompletedFrame is ever emitted: every frame passed to
\* decode_frame by the capture loop or by the shutdown handler has at least
\* one byte, a flush being taken only with a non-empty buffer and every
\* chunk read having at least one byte.
C36_NoEmptyFrame ==
    /\ \A i \in DOMAIN emitted : Len(emitted[i]) >= 1
    /\ pc \in {"gapcheck", "emit_d", "reset_d", "extend"} => Len(data) >= 1
    /\ pc \in {"emit_d", "emit_i"} => Len(frame_buffer) >= 1

\* C36 witness: the loop has emitted a frame and the shutdown handler
\* another.
C36_Witness ==
    /\ pc = "finally"
    /\ intAt \in LoopPcs
    /\ intCount >= 1
    /\ Len(emitted) = intCount + 1

\* C36 second witness state: the handler ran with an empty buffer, after an
\* idle flush, and emitted nothing.
C36_WitnessNothingPending ==
    /\ pc = "finally"
    /\ exc = "none"
    /\ intAt = "sleep"
    /\ intBuf = <<>>
    /\ intCount >= 1
    /\ Len(emitted) = intCount

\* ------------------------------------------------------------ CRC residue

\* C37: CRC residue: calc_crc16 of a byte sequence followed by the two bytes
\* of its checksum, low byte first, is 0; and a frame of four bytes or more
\* verifies exactly when calc_crc16 over the whole frame is 0.
C37_CrcResidue ==
    /\ (dpc = "crc" /\ seal = "good") => crc_value = 0
    /\ (dpc = "crc" /\ Len(input) >= 4) => (crc_value = 0 <=> verify_crc(input))
    /\ (dpc = "verified" /\ Len(input) >= 4 /\ seal = "good") => crc_result.ok

\* C37 witness: the checksum of a sealed response frame came out 0.
C37_Witness ==
    /\ dpc = "crc"
    /\ seal = "good"
    /\ body = <<1, 4, 2, 4, 226>>
    /\ input = <<1, 4, 2, 4, 226, calc_crc16(body) % 256, calc_crc16(body) \div 256>>
    /\ calc_crc16(body) # 0
    /\ crc_value = 0

\* C37 second witness state: a frame of four bytes or more that does not
\* verify has a checksum other than 0.
C37_WitnessBad ==
    /\ dpc = "crc"
    /\ seal = "hi_changed"
    /\ Len(input) >= 4
    /\ crc_value # 0

\* C37 third witness state: the empty sequence followed by its checksum
\* FF FF.
C37_WitnessEmpty ==
    /\ dpc = "crc"
    /\ input = <<255, 255>>
    /\ crc_value = 0

\* ------------------------------------------------- the time of the last byte

\* Positions of the loop at which the chunk last read has been appended and
\* stamped: the poll boundary and the idle path.
AppendedPcs == {"loop", "read", "idle", "emit_i", "reset_i", "sleep"}

\* Positions of the loop other than the one between `frame_buffer.extend(data)`
\* and `last_byte_time = current_time`.
StampedPcs == LoopPcs \ {"stamp"}

InputIsBytes == \A i \in DOMAIN input : input[i] \in 0 .. 255

\* The accumulator stays within 16 bits while byte k is processed: after
\* `crc ^= byte` and after each of the eight iterations, the last of which
\* gives the accumulator for the first k bytes.
WithinSixteenBits(k) ==
    LET before == PrefixCrc(k - 1)
        mixed == BitXor(before, input[k])
    IN  /\ before \in 0 .. 65535
        /\ mixed \in 0 .. 65535
        /\ \A n \in 1 .. 8 : CrcBits(mixed, n) \in 0 .. 65535
        /\ CrcBits(mixed, 8) = PrefixCrc(k)

\* C39: for every input whose elements are bytes, the accumulator of
\* calc_crc16 is within 0 .. 0xFFFF after every step, so the value returned
\* fits in 16 bits: it is the little-endian reading of two bytes.
C39_AccumulatorWidth ==
    (dpc = "crc" /\ InputIsBytes) =>
        /\ \A k \in 1 .. Len(input) : WithinSixteenBits(k)
        /\ crc_value \in 0 .. 65535
        /\ crc_value % 256 \in 0 .. 255
        /\ crc_value \div 256 \in 0 .. 255
        /\ BitOr(crc_value % 256, (crc_value \div 256) * 256) = crc_value

\* C39 witness: a checksum over eight bytes with bit 15 set; while the last
\* byte was processed the polynomial was XORed in with bit 15 set.
C39_Witness ==
    /\ dpc = "crc"
    /\ InputIsBytes
    /\ Len(input) = 8
    /\ crc_value >= 32768
    /\ \E n \in 1 .. 8 :
        /\ CrcBits(BitXor(PrefixCrc(7), input[8]), n - 1) % 2 = 1
        /\ CrcBits(BitXor(PrefixCrc(7), input[8]), n) >= 32768

====
